---- MODULE Spec2Model ----
(***************************************************************************)
(* Model of the Director Bake-Off: run_bake_off and DirectorBakeOff.aforward *)
(* (src/director_bake_off.py), DirectorCut.assemble_prompt, and the         *)
(* presentation adapter format_results_html (src/gradio_interface.py).      *)
(*                                                                         *)
(* Python strings are modelled as sequences of one-character strings.      *)
(* Python None / an absent value is the empty option <<>>, a present value *)
(* x is <<x>>.  Python list positions are 0-based; sequences here are      *)
(* 1-based, and best_index keeps the source's 0-based value.               *)
(***************************************************************************)
EXTENDS Integers, Sequences, FiniteSets, TLC

VARIABLES
    api_key,              \* os.getenv('OPENROUTER_API_KEY') is set
    lm,                   \* the module-level model-client handle
    pc,                   \* position of the request
    directors_arg,        \* the directors argument run_bake_off was called with
    directors,            \* the list run_bake_off hands to aforward
    find_call,            \* the findDirector call
    additional_director,  \* its result, as an option
    calls,                \* the genDirectorCut.acall tasks, in submission order
    done_order,           \* positions of the gathered tasks in the order they
                          \* completed, kept until the judge call has ended
    director_ideas,       \* the list asyncio.gather returned
    judge_call,           \* the directorJudge call
    best_index,           \* the winner's 0-based position, as an option
    result,               \* the ResultClass run_bake_off returned, as an option
    error,                \* the exception run_bake_off raised, as an option
    html,                 \* what format_results_html returned, as an option
    cut,                  \* the DirectorCut assemble_prompt is applied to
    prompt,               \* what assemble_prompt returned, as an option
    director_ranks,       \* the rank sequence the directorJudge call returned
    lm_inits,             \* how often setup_dspy_provider assigned lm
    requests,             \* how many submit actions the form has had
    ui_pc,                \* position of the run_director_bakeoff generator
    outputs               \* the fragments the submit action has yielded

vars == <<api_key, lm, pc, directors_arg, directors, find_call,
          additional_director, calls, done_order, director_ideas, judge_call,
          best_index, result, error, html, cut, prompt, director_ranks,
          lm_inits, requests, ui_pc, outputs>>

orch_vars == <<api_key, lm, pc, directors_arg, directors, find_call,
               additional_director, calls, done_order, director_ideas,
               judge_call, best_index, result, error, html, director_ranks,
               lm_inits, requests, ui_pc, outputs>>

ui_vars == <<requests, ui_pc, outputs>>

-----------------------------------------------------------------------------
(* Bounds *)

\* longest directors text run_bake_off is given
MaxLen == 5
\* longest value of the first and the last field of a DirectorCut
MaxFieldLen == 2
\* largest rank value the judge returns
MaxRank == 3
\* number of submit actions in one process
MaxRequests == 2

-----------------------------------------------------------------------------
(* Strings *)

None == <<>>
Some(x) == <<x>>

\* the characters of a directors text
DirChars == {"a", "b", " ", ","}

\* the characters of a DirectorCut field
FieldChars == {"a", ".", " "}

RECURSIVE StringsUpTo(_, _)
StringsUpTo(chars, n) ==
    IF n = 0 THEN {<<>>}
    ELSE LET shorter == StringsUpTo(chars, n - 1)
         IN  shorter \cup {Append(s, c) : s \in shorter, c \in chars}

isspace(c) == c = " "

RECURSIVE lstrip(_)
lstrip(s) ==
    IF s = <<>> THEN <<>>
    ELSE IF isspace(Head(s)) THEN lstrip(Tail(s))
    ELSE s

RECURSIVE rstrip(_)
rstrip(s) ==
    IF s = <<>> THEN <<>>
    ELSE IF isspace(s[Len(s)]) THEN rstrip(SubSeq(s, 1, Len(s) - 1))
    ELSE s

\* a mutant of strip: trims the left side only
strip_left_only(s) == lstrip(s)

\* str.strip()
strip(s) == rstrip(lstrip(s))

\* str.split(","): "" splits to [""], "a," to ["a", ""]
RECURSIVE split(_)
split(s) ==
    IF \A k \in 1..Len(s) : s[k] # ","
    THEN <<s>>
    ELSE LET i == CHOOSE k \in 1..Len(s) :
                      /\ s[k] = ","
                      /\ \A m \in 1..(k - 1) : s[m] # ","
         IN  <<SubSeq(s, 1, i - 1)>> \o split(SubSeq(s, i + 1, Len(s)))

\* [f(x) for x in xs if p(x)] with f = strip and p = "x.strip() is truthy"
RECURSIVE strip_nonblank(_)
strip_nonblank(xs) ==
    IF xs = <<>> THEN <<>>
    ELSE IF strip(Head(xs)) # <<>>
         THEN <<strip(Head(xs))>> \o strip_nonblank(Tail(xs))
         ELSE strip_nonblank(Tail(xs))

\* str.upper() of one character
upper(c) == IF c = "a" THEN "A" ELSE IF c = "b" THEN "B" ELSE c

-----------------------------------------------------------------------------
(* run_bake_off: the directors argument *)

\* the default list, each name by its initials
DefaultDirectors == << <<"Q", "T">>, <<"A", "H">>, <<"R", "C">> >>

\* a directors argument: None (is_str FALSE) or a text
NoneArg == [is_str |-> FALSE, text |-> <<>>]
StrArg(s) == [is_str |-> TRUE, text |-> s]

\* a mutant of ParseDirectors: no fallback when parsing leaves nothing
ParseDirectorsNoFallback(arg) ==
    IF ~(arg.is_str /\ strip(arg.text) # <<>>)
    THEN DefaultDirectors
    ELSE strip_nonblank(split(arg.text))

\* run_bake_off, step 2
ParseDirectors(arg) ==
    IF ~(arg.is_str /\ strip(arg.text) # <<>>)
    THEN DefaultDirectors
    ELSE LET parsed == strip_nonblank(split(arg.text))
         IN  IF parsed = <<>> THEN DefaultDirectors ELSE parsed

-----------------------------------------------------------------------------
(* DirectorCut *)

Components(c) ==
    << c.subject_description, c.action_description, c.setting_description,
       c.cinematic_style, c.shot_and_framing, c.camera_movement,
       c.lighting_and_color >>

\* [c.strip() for c in components if c]
RECURSIVE strip_nonempty(_)
strip_nonempty(xs) ==
    IF xs = <<>> THEN <<>>
    ELSE IF Head(xs) # <<>>
         THEN <<strip(Head(xs))>> \o strip_nonempty(Tail(xs))
         ELSE strip_nonempty(Tail(xs))

\* filter(None, xs)
RECURSIVE filter_none(_)
filter_none(xs) ==
    IF xs = <<>> THEN <<>>
    ELSE IF Head(xs) # <<>>
         THEN <<Head(xs)>> \o filter_none(Tail(xs))
         ELSE filter_none(Tail(xs))

\* ", ".join(xs)
RECURSIVE join(_)
join(xs) ==
    IF xs = <<>> THEN <<>>
    ELSE IF Len(xs) = 1 THEN Head(xs)
    ELSE Head(xs) \o <<",", " ">> \o join(Tail(xs))

\* DirectorCut.assemble_prompt
assemble_prompt(c) ==
    LET prompt_string == join(filter_none(strip_nonempty(Components(c))))
    IN  IF prompt_string = <<>> THEN <<>>
        ELSE <<upper(prompt_string[1])>> \o Tail(prompt_string) \o <<".">>

\* a DirectorCut whose seven fields are fs[1..7]
MakeCut(d, fs) ==
    [ director |-> d,
      subject_description |-> fs[1], action_description |-> fs[2],
      setting_description |-> fs[3], cinematic_style |-> fs[4],
      shot_and_framing |-> fs[5], camera_movement |-> fs[6],
      lighting_and_color |-> fs[7] ]

\* the DirectorCut a genDirectorCut call for director d returns
CutsFor(d) == { MakeCut(d, [k \in 1..7 |-> <<"a">>]) }

-----------------------------------------------------------------------------
(* DirectorBakeOff.aforward *)

\* the errors a task call fails with
Errors == {"E1", "E2"}

\* the names the findDirector call returns
Suggestions == { <<"z">>, <<"a">>, <<"Q", "T">> }

\* the directors arguments of the requests
SampleArgs ==
    { NoneArg, StrArg(<<"a">>), StrArg(<<"a", ",", " ", "b">>), StrArg(<<",">>) }

IdleCall == [status |-> "idle", error |-> None]
PendingCall == [status |-> "pending", error |-> None]
OkCall == [status |-> "ok", error |-> None]
FailedCall(e) == [status |-> "failed", error |-> Some(e)]

\* a mutant of AllDirectors: the suggested director is left out
AllDirectorsNoSuggestion(ds, additional) == ds

\* all_directors = directors + [additional_director]
AllDirectors(ds, additional) == ds \o <<additional>>

\* a mutant of IssueCalls: the coroutines are created but never run
IssueCallsNeverStarted(all_directors) ==
    [ i \in 1..Len(all_directors) |->
        [ director |-> all_directors[i], status |-> "created",
          error |-> None, result |-> None ] ]

\* [self.genDirectorCut.acall(..., director=director) for director in all_directors]
IssueCalls(all_directors) ==
    [ i \in 1..Len(all_directors) |->
        [ director |-> all_directors[i], status |-> "pending",
          error |-> None, result |-> None ] ]

\* asyncio.gather resumes the awaiting coroutine with the results
AllSucceeded(cs) == \A i \in 1..Len(cs) : cs[i].status = "ok"

\* a mutant of GatherResults: the results in completion order
GatherResultsCompletionOrder(cs, order) ==
    [ k \in 1..Len(order) |-> cs[order[k]].result[1] ]

\* the list asyncio.gather returns: the results in submission order
GatherResults(cs, order) ==
    [ i \in 1..Len(cs) |-> cs[i].result[1] ]

\* min(director_rankings)
Min(ranks) ==
    CHOOSE m \in {ranks[i] : i \in 1..Len(ranks)} :
        \A i \in 1..Len(ranks) : m <= ranks[i]

\* list.index(x), 0-based
RECURSIVE index(_, _)
index(xs, x) == IF Head(xs) = x THEN 0 ELSE 1 + index(Tail(xs), x)

\* a mutant of BestIndex: the last position holding the minimum
BestIndexLast(ranks) ==
    (CHOOSE i \in 1..Len(ranks) :
        /\ ranks[i] = Min(ranks)
        /\ \A j \in (i + 1)..Len(ranks) : ranks[j] # Min(ranks)) - 1

\* best_index = director_rankings.index(min(director_rankings))
BestIndex(ranks) == index(ranks, Min(ranks))

\* the rank sequences the directorJudge call returns for n breakdowns
RankLists(n) == StringsUpTo(1..MaxRank, n + 1)

-----------------------------------------------------------------------------
(* format_results_html *)

\* a mutant of insert_by_rank: descending order
insert_by_rank_desc(x, sorted) ==
    LET k == Cardinality({i \in 1..Len(sorted) : sorted[i].rank >= x.rank})
    IN  SubSeq(sorted, 1, k) \o <<x>> \o SubSeq(sorted, k + 1, Len(sorted))

\* a mutant of insert_by_rank: x goes before the elements of equal rank
insert_by_rank_before_ties(x, sorted) ==
    LET k == Cardinality({i \in 1..Len(sorted) : sorted[i].rank < x.rank})
    IN  SubSeq(sorted, 1, k) \o <<x>> \o SubSeq(sorted, k + 1, Len(sorted))

\* x goes after every element whose rank is not larger (list.sort is stable)
insert_by_rank(x, sorted) ==
    LET k == Cardinality({i \in 1..Len(sorted) : sorted[i].rank <= x.rank})
    IN  SubSeq(sorted, 1, k) \o <<x>> \o SubSeq(sorted, k + 1, Len(sorted))

\* ranked_ideas.sort(key=lambda x: x[0])
RECURSIVE sort_by_rank(_)
sort_by_rank(xs) ==
    IF xs = <<>> THEN <<>>
    ELSE insert_by_rank(xs[Len(xs)], sort_by_rank(SubSeq(xs, 1, Len(xs) - 1)))

\* the (rank, idea.director_cut) pairs of the enumerate loop
RankedIdeas(res) ==
    [ i \in 1..Len(res.director_ideas) |->
        [ rank |-> res.director_ranks.director_rankings[i],
          director_cut |-> res.director_ideas[i].director_cut ] ]

\* one director card
Card(x) ==
    [ rank |-> x.rank, director |-> x.director_cut.director,
      prompt |-> assemble_prompt(x.director_cut) ]

\* format_results_html(result) for a ResultClass: the cards in rendered
\* order, or the "Error formatting results" panel, which shows str(e) only,
\* when director_rankings[i] raises IndexError
format_results_html(res) ==
    IF Len(res.director_ranks.director_rankings) < Len(res.director_ideas)
    THEN [ kind |-> "format_error", cards |-> <<>>,
           message |-> Some("IndexError"), trace |-> FALSE ]
    ELSE LET ranked_ideas == sort_by_rank(RankedIdeas(res))
         IN  [ kind |-> "results",
               cards |-> [k \in 1..Len(ranked_ideas) |-> Card(ranked_ideas[k])],
               message |-> None, trace |-> FALSE ]

-----------------------------------------------------------------------------
(* The request *)

NoCut == MakeCut(<<>>, [k \in 1..7 |-> <<>>])

Init ==
    /\ api_key \in BOOLEAN
    /\ lm = "None"
    /\ pc = "idle"
    /\ directors_arg = NoneArg
    /\ directors = <<>>
    /\ find_call = IdleCall
    /\ additional_director = None
    /\ calls = <<>>
    /\ done_order = <<>>
    /\ director_ideas = <<>>
    /\ judge_call = IdleCall
    /\ best_index = None
    /\ result = None
    /\ error = None
    /\ html = None
    /\ cut = NoCut
    /\ prompt = None
    /\ director_ranks = None
    /\ lm_inits = 0
    /\ requests = 0
    /\ ui_pc = "none"
    /\ outputs = <<>>

\* a mutant of NeedsSetup: the provider is set up on every call
NeedsSetupAlways(handle) == TRUE

\* if not lm
NeedsSetup(handle) == handle = "None"

\* run_bake_off up to the findDirector call of aforward:
\* setup_dspy_provider when lm is unset (sys.exit(1) without a key), then the
\* directors argument.  Called by the script's entry point (ui_pc = "none")
\* or by run_director_bakeoff after its placeholder.
RunBakeOff(arg) ==
    /\ pc = "idle"
    /\ ui_pc \in {"none", "placeholder"}
    /\ directors_arg' = arg
    /\ ui_pc' = IF ui_pc = "placeholder" THEN "running" ELSE "none"
    /\ IF NeedsSetup(lm) /\ ~api_key
       THEN /\ pc' = "exited"
            /\ UNCHANGED <<lm, lm_inits, directors, find_call>>
       ELSE /\ lm' = "LM"
            /\ lm_inits' = IF NeedsSetup(lm) THEN lm_inits + 1 ELSE lm_inits
            /\ directors' = ParseDirectors(arg)
            /\ find_call' = PendingCall
            /\ pc' = "find_director"
    /\ UNCHANGED <<api_key, additional_director, calls, done_order,
                   director_ideas, judge_call, best_index, result, error,
                   html, cut, prompt, director_ranks, requests, outputs>>

\* a mutant of FindDirectorReturns: directors.append(additional_director)
FindDirectorReturnsAppendInPlace(name) ==
    /\ pc = "find_director"
    /\ find_call' = OkCall
    /\ additional_director' = Some(name)
    /\ directors' = Append(directors, name)
    /\ calls' = IssueCalls(Append(directors, name))
    /\ pc' = "gather"
    /\ UNCHANGED <<director_ranks, lm_inits, ui_vars>>
    /\ UNCHANGED <<api_key, lm, directors_arg, done_order,
                   director_ideas, judge_call, best_index, result, error,
                   html, cut, prompt>>

\* the findDirector call returns; the breakdown tasks are created and gathered
FindDirectorReturns(name) ==
    /\ pc = "find_director"
    /\ find_call' = OkCall
    /\ additional_director' = Some(name)
    /\ calls' = IssueCalls(AllDirectors(directors, name))
    /\ pc' = "gather"
    /\ UNCHANGED <<director_ranks, lm_inits, ui_vars>>
    /\ UNCHANGED <<api_key, lm, directors_arg, directors, done_order,
                   director_ideas, judge_call, best_index, result, error,
                   html, cut, prompt>>

\* the findDirector call raises; the exception leaves run_bake_off
FindDirectorFails(e) ==
    /\ pc = "find_director"
    /\ find_call' = FailedCall(e)
    /\ error' = Some(e)
    /\ pc' = "raised"
    /\ UNCHANGED <<director_ranks, lm_inits, ui_vars>>
    /\ UNCHANGED <<api_key, lm, directors_arg, directors, additional_director,
                   calls, done_order, director_ideas, judge_call, best_index,
                   result, html, cut, prompt>>

\* one genDirectorCut task completes
GenDirectorCutReturns(i, c) ==
    /\ pc = "gather"
    /\ calls[i].status = "pending"
    /\ calls' = [calls EXCEPT ![i].status = "ok",
                              ![i].result = Some([director_cut |-> c])]
    /\ done_order' = Append(done_order, i)
    /\ UNCHANGED <<director_ranks, lm_inits, ui_vars>>
    /\ UNCHANGED <<api_key, lm, pc, directors_arg, directors, find_call,
                   additional_director, director_ideas, judge_call, best_index,
                   result, error, html, cut, prompt>>

\* one genDirectorCut task raises: gather propagates the first exception,
\* the exception leaves run_bake_off and asyncio.run cancels the other tasks
GenDirectorCutFails(i, e) ==
    /\ pc = "gather"
    /\ calls[i].status = "pending"
    /\ calls' = [ k \in 1..Len(calls) |->
                    IF k = i
                    THEN [calls[k] EXCEPT !.status = "failed", !.error = Some(e)]
                    ELSE IF calls[k].status = "pending"
                         THEN [calls[k] EXCEPT !.status = "cancelled"]
                         ELSE calls[k] ]
    /\ error' = Some(e)
    /\ pc' = "raised"
    /\ UNCHANGED <<director_ranks, lm_inits, ui_vars>>
    /\ UNCHANGED <<api_key, lm, directors_arg, directors, find_call,
                   additional_director, done_order, director_ideas, judge_call,
                   best_index, result, html, cut, prompt>>

\* a mutant of GatherJoins: the judge is called as soon as one task is done
GatherJoinsEarly ==
    /\ pc = "gather"
    /\ \E i \in 1..Len(calls) : calls[i].status = "ok"
    /\ director_ideas' = [ k \in 1..Len(done_order) |->
                             calls[done_order[k]].result[1] ]
    /\ judge_call' = PendingCall
    /\ pc' = "judge"
    /\ UNCHANGED <<director_ranks, lm_inits, ui_vars>>
    /\ UNCHANGED <<api_key, lm, directors_arg, directors, find_call,
                   additional_director, calls, done_order, best_index, result,
                   error, html, cut, prompt>>

\* the gather completes; the directorJudge call is made
GatherJoins ==
    /\ pc = "gather"
    /\ AllSucceeded(calls)
    /\ director_ideas' = GatherResults(calls, done_order)
    /\ judge_call' = PendingCall
    /\ pc' = "judge"
    /\ UNCHANGED <<director_ranks, lm_inits, ui_vars>>
    /\ UNCHANGED <<api_key, lm, directors_arg, directors, find_call,
                   additional_director, calls, done_order, best_index, result,
                   error, html, cut, prompt>>

\* a mutant of WinnerError: a position past the last breakdown is not noticed
WinnerErrorEmptyOnly(ranks, n) ==
    IF ranks = <<>> THEN Some("ValueError") ELSE None

\* step 6 of aforward over n breakdowns: min() of an empty list raises
\* ValueError, director_ideas[best_index] past the end raises IndexError
WinnerError(ranks, n) ==
    IF ranks = <<>> THEN Some("ValueError")
    ELSE IF BestIndex(ranks) >= n THEN Some("IndexError")
    ELSE None

\* the directorJudge call returns; steps 5 to 7 of aforward, and the return
\* of run_bake_off
DirectorJudgeReturns ==
    /\ pc = "judge"
    /\ done_order' = <<>>
    /\ \E ranks \in RankLists(Len(director_ideas)) :
        /\ judge_call' = OkCall
        /\ director_ranks' = Some(ranks)
        /\ IF WinnerError(ranks, Len(director_ideas)) # None
           THEN /\ error' = WinnerError(ranks, Len(director_ideas))
                /\ pc' = "raised"
                /\ UNCHANGED <<best_index, result>>
           ELSE /\ best_index' = Some(BestIndex(ranks))
                /\ result' =
                     Some([ additional_director |-> additional_director[1],
                            director_ideas |-> director_ideas,
                            director_ranks |-> [director_rankings |-> ranks] ])
                /\ pc' = "returned"
                /\ UNCHANGED error
    /\ UNCHANGED <<lm_inits, ui_vars>>
    /\ UNCHANGED <<api_key, lm, directors_arg, directors, find_call,
                   additional_director, calls, director_ideas,
                   html, cut, prompt>>

\* a mutant of DirectorJudgeFails: the failure is swallowed and a result
\* without ranks is returned
DirectorJudgeFailsPartial(e) ==
    /\ pc = "judge"
    /\ done_order' = <<>>
    /\ judge_call' = FailedCall(e)
    /\ result' = Some([ additional_director |-> additional_director[1],
                        director_ideas |-> director_ideas,
                        director_ranks |-> [director_rankings |-> <<>>] ])
    /\ pc' = "returned"
    /\ UNCHANGED <<director_ranks, lm_inits, ui_vars>>
    /\ UNCHANGED <<api_key, lm, directors_arg, directors, find_call,
                   additional_director, calls, director_ideas,
                   best_index, error, html, cut, prompt>>

\* the directorJudge call raises; the exception leaves run_bake_off
DirectorJudgeFails(e) ==
    /\ pc = "judge"
    /\ done_order' = <<>>
    /\ judge_call' = FailedCall(e)
    /\ error' = Some(e)
    /\ pc' = "raised"
    /\ UNCHANGED <<director_ranks, lm_inits, ui_vars>>
    /\ UNCHANGED <<api_key, lm, directors_arg, directors, find_call,
                   additional_director, calls, director_ideas,
                   best_index, result, html, cut, prompt>>

(* run_director_bakeoff, driven by handle_submit *)

\* the fragments of the output region
Placeholder ==
    [kind |-> "placeholder", cards |-> <<>>, message |-> None, trace |-> FALSE]
ErrorHtml(e) ==
    [kind |-> "error", cards |-> <<>>, message |-> e, trace |-> TRUE]

\* the form's inputs: the directors text is always a string
FormArgs == {arg \in SampleArgs : arg.is_str}

\* a submit action, up to the call of run_bake_off: a blank video idea ends
\* the generator before its first yield, anything else yields the placeholder
Submit(blank, arg) ==
    /\ \/ ui_pc = "none" /\ pc = "idle"
       \/ ui_pc = "finished"
    /\ requests < MaxRequests
    /\ requests' = requests + 1
    /\ IF blank
       THEN /\ outputs' = <<>>
            /\ ui_pc' = "finished"
       ELSE /\ outputs' = <<Placeholder>>
            /\ ui_pc' = "placeholder"
    /\ pc' = "idle"
    /\ directors_arg' = arg
    /\ directors' = <<>>
    /\ find_call' = IdleCall
    /\ additional_director' = None
    /\ calls' = <<>>
    /\ done_order' = <<>>
    /\ director_ideas' = <<>>
    /\ judge_call' = IdleCall
    /\ director_ranks' = None
    /\ best_index' = None
    /\ result' = None
    /\ error' = None
    /\ html' = None
    /\ UNCHANGED <<api_key, lm, lm_inits, cut, prompt>>

\* a mutant of FormatResults: format_results_html without its try/except,
\* the IndexError reaches the except clause of run_director_bakeoff
FormatResultsUncaught ==
    /\ pc = "returned"
    /\ ui_pc = "running"
    /\ LET res == result[1]
       IN  IF Len(res.director_ranks.director_rankings) < Len(res.director_ideas)
           THEN /\ html' = None
                /\ outputs' = Append(outputs, ErrorHtml(Some("IndexError")))
           ELSE /\ html' = Some(format_results_html(res))
                /\ outputs' = Append(outputs, format_results_html(res))
    /\ pc' = "formatted"
    /\ ui_pc' = "finished"
    /\ UNCHANGED <<api_key, lm, directors_arg, directors, find_call,
                   additional_director, calls, done_order, director_ideas,
                   judge_call, best_index, result, error, cut, prompt,
                   director_ranks, lm_inits, requests>>

\* run_bake_off returned: the result is formatted and yielded
FormatResults ==
    /\ pc = "returned"
    /\ ui_pc = "running"
    /\ html' = Some(format_results_html(result[1]))
    /\ outputs' = Append(outputs, format_results_html(result[1]))
    /\ pc' = "formatted"
    /\ ui_pc' = "finished"
    /\ UNCHANGED <<api_key, lm, directors_arg, directors, find_call,
                   additional_director, calls, done_order, director_ideas,
                   judge_call, best_index, result, error, cut, prompt,
                   director_ranks, lm_inits, requests>>

\* a mutant of RenderError: except BaseException, SystemExit is rendered too
RenderErrorBaseException ==
    /\ pc \in {"raised", "exited"}
    /\ ui_pc = "running"
    /\ outputs' = Append(outputs, ErrorHtml(error))
    /\ ui_pc' = "finished"
    /\ UNCHANGED <<api_key, lm, pc, directors_arg, directors, find_call,
                   additional_director, calls, done_order, director_ideas,
                   judge_call, best_index, result, error, html, cut, prompt,
                   director_ranks, lm_inits, requests>>

\* run_bake_off raised an Exception: error_html, with the traceback, is
\* yielded.  SystemExit is not an Exception and is not caught.
RenderError ==
    /\ pc = "raised"
    /\ ui_pc = "running"
    /\ outputs' = Append(outputs, ErrorHtml(error))
    /\ ui_pc' = "finished"
    /\ UNCHANGED <<api_key, lm, pc, directors_arg, directors, find_call,
                   additional_director, calls, done_order, director_ideas,
                   judge_call, best_index, result, error, html, cut, prompt,
                   director_ranks, lm_inits, requests>>

\* the script's entry point: run_bake_off(sample_idea)
Main == ui_pc = "none" /\ RunBakeOff(NoneArg)

\* run_director_bakeoff: run_bake_off(video_idea, directors)
CallRunBakeOff == ui_pc = "placeholder" /\ RunBakeOff(directors_arg)

Next ==
    \/ Main
    \/ \E blank \in BOOLEAN : \E arg \in FormArgs : Submit(blank, arg)
    \/ CallRunBakeOff
    \/ \E name \in Suggestions : FindDirectorReturns(name)
    \/ \E e \in Errors : FindDirectorFails(e)
    \/ \E i \in 1..Len(calls) : \E c \in CutsFor(calls[i].director) :
          GenDirectorCutReturns(i, c)
    \/ \E i \in 1..Len(calls) : \E e \in Errors : GenDirectorCutFails(i, e)
    \/ GatherJoins
    \/ DirectorJudgeReturns
    \/ \E e \in Errors : DirectorJudgeFails(e)
    \/ FormatResults
    \/ RenderError

Spec == Init /\ [][Next]_vars

-----------------------------------------------------------------------------
(* run_bake_off on every directors argument up to MaxLen characters *)

DirectorsArgs ==
    {NoneArg} \cup {StrArg(s) : s \in StringsUpTo(DirChars, MaxLen)}

NextParse == \E arg \in DirectorsArgs : RunBakeOff(arg)

SpecParse == Init /\ [][NextParse]_vars

-----------------------------------------------------------------------------
(* assemble_prompt on DirectorCuts *)

\* the values of the five middle fields
MidVals(k) ==
    IF k = 4 THEN {<<>>, <<" ">>, <<"a">>} ELSE {<<>>, <<"a">>}

PromptCuts ==
    LET ends == StringsUpTo(FieldChars, MaxFieldLen)
    IN  { MakeCut(<<"z">>, <<f1, f2, f3, f4, f5, f6, f7>>) :
            f1 \in ends, f2 \in MidVals(2), f3 \in MidVals(3),
            f4 \in MidVals(4), f5 \in MidVals(5), f6 \in MidVals(6),
            f7 \in ends }

InitPrompt ==
    /\ api_key = TRUE
    /\ lm = "None"
    /\ pc = "idle"
    /\ directors_arg = NoneArg
    /\ directors = <<>>
    /\ find_call = IdleCall
    /\ additional_director = None
    /\ calls = <<>>
    /\ done_order = <<>>
    /\ director_ideas = <<>>
    /\ judge_call = IdleCall
    /\ best_index = None
    /\ result = None
    /\ error = None
    /\ html = None
    /\ cut \in PromptCuts
    /\ prompt = None
    /\ director_ranks = None
    /\ lm_inits = 0
    /\ requests = 0
    /\ ui_pc = "none"
    /\ outputs = <<>>

AssemblePrompt ==
    /\ prompt = None
    /\ prompt' = Some(assemble_prompt(cut))
    /\ UNCHANGED <<orch_vars, cut>>

NextPrompt == AssemblePrompt

SpecPrompt == InitPrompt /\ [][NextPrompt]_vars

-----------------------------------------------------------------------------
(* Properties *)

\* C1: a request that completed successfully issued exactly N+1
\* breakdown-generation calls for its N supplied directors: one per supplied
\* director, in order, and one for the suggested director.
C1_ExactlyNPlusOneCalls ==
    result # None =>
        /\ Len(directors) >= 1
        /\ Len(calls) = Len(directors) + 1
        /\ \A i \in 1..Len(directors) : calls[i].director = directors[i]
        /\ calls[Len(directors) + 1].director = additional_director[1]

C1_Witness ==
    /\ pc = "returned"
    /\ Len(directors) = 3
    /\ Len(calls) = 4

\* C2: in every returned result the rank sequence is as long as the
\* breakdown list, whatever the judging task produced.
C2_RankLengthEqualsBreakdowns ==
    result # None =>
        Len(result[1].director_ranks.director_rankings)
            = Len(result[1].director_ideas)

\* C3: the breakdown list the gather hands to the orchestrator, and the one
\* the orchestrator returns, is in the order [supplied directors...,
\* suggested director], for every completion order of the breakdown calls.
C3_BreakdownOrder ==
    LET expected == directors \o additional_director
        InOrder(ideas) ==
            /\ Len(ideas) = Len(expected)
            /\ \A i \in 1..Len(expected) :
                  ideas[i].director_cut.director = expected[i]
    IN  /\ pc = "judge" => InOrder(director_ideas)
        /\ result # None =>
              /\ InOrder(result[1].director_ideas)
              /\ result[1].additional_director = additional_director[1]

C3_Witness ==
    /\ pc = "judge"
    /\ done_order = <<3, 1, 2>>
    /\ Len(director_ideas) = 3
    /\ director_ideas[1].director_cut.director = <<"a">>
    /\ director_ideas[3].director_cut.director = <<"z">>

\* C4: the winner is the breakdown at the first position holding the minimum
\* of the rank sequence.
C4_WinnerFirstMinimum ==
    best_index # None =>
        LET ranks == result[1].director_ranks.director_rankings
            w == best_index[1] + 1
        IN  /\ w \in 1..Len(ranks)
            /\ \A j \in 1..Len(ranks) : ranks[w] <= ranks[j]
            /\ \A j \in 1..(w - 1) : ranks[j] > ranks[w]

C4_Witness ==
    /\ best_index = Some(1)
    /\ result # None
    /\ result[1].director_ranks.director_rankings = <<2, 1, 1, 3>>

\* C5: when the directors text has a non-blank comma-separated segment, the
\* list handed to the orchestrator is exactly the non-blank segments, in their
\* original order, each trimmed of surrounding whitespace.
C5_ParsedSegments ==
    LET s == directors_arg.text
        IsSegment(i, j) ==
            /\ i = 1 \/ s[i - 1] = ","
            /\ j = Len(s) \/ s[j + 1] = ","
            /\ \A k \in i..j : s[k] # ","
        NonBlank(i, j) == \E k \in i..j : s[k] # " "
        Segs == { seg \in (1..Len(s)) \X (1..Len(s)) :
                    IsSegment(seg[1], seg[2]) /\ NonBlank(seg[1], seg[2]) }
        First(seg) == CHOOSE k \in seg[1]..seg[2] :
                        s[k] # " " /\ \A m \in seg[1]..(k - 1) : s[m] = " "
        Last(seg) == CHOOSE k \in seg[1]..seg[2] :
                        s[k] # " " /\ \A m \in (k + 1)..seg[2] : s[m] = " "
        Before(seg) == {t \in Segs : t[1] < seg[1]}
    IN  (pc = "find_director" /\ directors_arg.is_str /\ Segs # {}) =>
            /\ Len(directors) = Cardinality(Segs)
            /\ \A seg \in Segs :
                  directors[Cardinality(Before(seg)) + 1]
                      = SubSeq(s, First(seg), Last(seg))

C5_Witness ==
    /\ pc = "find_director"
    /\ directors_arg = StrArg(<<" ", "a", " ", ",", "b">>)
    /\ directors = << <<"a">>, <<"b">> >>

\* C6: when the directors argument is None, empty, whitespace-only or
\* only commas and whitespace, the orchestrator runs with the three-name
\* default list; the list handed to the orchestrator is never empty.
C6_DefaultDirectors ==
    pc = "find_director" =>
        /\ directors # <<>>
        /\ (\/ ~directors_arg.is_str
            \/ \A k \in 1..Len(directors_arg.text) :
                  directors_arg.text[k] \in {" ", ","})
           => directors = << <<"Q", "T">>, <<"A", "H">>, <<"R", "C">> >>

C6_Witness ==
    /\ pc = "find_director"
    /\ directors_arg = StrArg(<<",", " ", ",">>)
    /\ Len(directors) = 3

\* C7: assemble_prompt on seven non-empty fields returns the fields joined by
\* commas, first character upper-cased, ending in exactly one period; on seven
\* empty fields it returns the empty string.
C7_AssemblePrompt ==
    prompt # None =>
        LET fs == Components(cut)
            out == prompt[1]
            joined == fs[1] \o <<",", " ">> \o fs[2] \o <<",", " ">> \o fs[3]
                      \o <<",", " ">> \o fs[4] \o <<",", " ">> \o fs[5]
                      \o <<",", " ">> \o fs[6] \o <<",", " ">> \o fs[7]
        IN  /\ (\A k \in 1..7 : fs[k] # <<>>) =>
                  /\ Len(out) = Len(joined) + 1
                  /\ out[1] = (IF joined[1] = "a" THEN "A" ELSE joined[1])
                  /\ \A k \in 2..Len(joined) : out[k] = joined[k]
                  /\ out[Len(out)] = "."
                  /\ out[Len(out) - 1] # "."
            /\ (\A k \in 1..7 : fs[k] = <<>>) => out = <<>>

\* C8: the cards are rendered in ascending order of the rank at the same
\* position of the rank sequence, each card showing the rank correlated with
\* its breakdown.
C8_CardsSortedByRank ==
    (html # None /\ html[1].kind = "results") =>
        LET cards == html[1].cards
            ideas == result[1].director_ideas
            ranks == result[1].director_ranks.director_rankings
            n == Len(ideas)
        IN  /\ Len(cards) = n
            /\ \A k \in 1..(n - 1) : cards[k].rank <= cards[k + 1].rank
            /\ \E p \in [1..n -> 1..n] :
                  /\ \A a, b \in 1..n : p[a] = p[b] => a = b
                  /\ \A k \in 1..n :
                        /\ cards[k].rank = ranks[p[k]]
                        /\ cards[k].director = ideas[p[k]].director_cut.director

C8_Witness ==
    /\ html # None
    /\ html[1].kind = "results"
    /\ Len(result[1].director_ideas) = 3
    /\ result[1].director_ranks.director_rankings = <<3, 1, 2>>
    /\ [k \in 1..3 |-> result[1].director_ideas[k].director_cut.director]
          = << <<"a">>, <<"b">>, <<"z">> >>
    /\ [k \in 1..3 |-> html[1].cards[k].director]
          = << <<"b">>, <<"z">>, <<"a">> >>

C10_StagesInOrder ==
    /\ calls # <<>> => find_call.status = "ok"
    /\ judge_call.status # "idle" =>
          /\ Len(calls) = Len(directors) + 1
          /\ \A i \in 1..Len(calls) : calls[i].status = "ok"
    /\ (\E i \in 1..Len(calls) : calls[i].status = "failed") =>
          judge_call.status = "idle"

C10_Witness ==
    /\ judge_call.status = "pending"
    /\ Len(calls) = 4
    /\ \A i \in 1..4 : calls[i].status = "ok"


\* C11: every submit action first shows the progress placeholder and then
\* exactly one final fragment, the ranked results or an error fragment; the
\* placeholder is emitted before the orchestrator is invoked.
C11_PlaceholderThenFinal ==
    /\ ui_pc = "finished" =>
          /\ Len(outputs) = 2
          /\ outputs[1].kind = "placeholder"
          /\ outputs[2].kind \in {"results", "format_error", "error"}
    /\ ui_pc = "running" => outputs = <<Placeholder>>

C13_MissingKeyIsFatal ==
    /\ [](~api_key =>
            /\ pc \in {"idle", "exited"}
            /\ lm = "None"
            /\ find_call.status = "idle"
            /\ calls = <<>>
            /\ judge_call.status = "idle"
            /\ result = None
            /\ \A k \in 1..Len(outputs) : outputs[k].kind = "placeholder")
    /\ [][pc # "exited"]_vars

C13_Witness ==
    /\ pc = "exited"
    /\ ui_pc = "running"
    /\ outputs = <<Placeholder>>

\* C14 (as stated): an exception while formatting a returned result is caught
\* inside the formatter and rendered as a diagnostic panel that includes a
\* full trace; it never reaches the submit action.
C14_FormatErrorPanelWithTrace ==
    (pc = "formatted"
       /\ Len(result[1].director_ranks.director_rankings)
            < Len(result[1].director_ideas)) =>
        /\ html # None
        /\ html[1].kind = "format_error"
        /\ html[1].trace
        /\ outputs = <<Placeholder, html[1]>>

\* C14 (amended): an exception while formatting a returned result is caught
\* inside the formatter and rendered as a panel showing the exception's
\* message, without a trace; it never reaches the submit action, whose final
\* fragment is that panel.
C14_FormatErrorCaught ==
    pc = "formatted" =>
        /\ html # None
        /\ outputs = <<Placeholder, html[1]>>
        /\ Len(result[1].director_ranks.director_rankings)
             < Len(result[1].director_ideas) =>
              /\ html[1].kind = "format_error"
              /\ html[1].message = Some("IndexError")
              /\ ~html[1].trace

C14_Witness ==
    /\ pc = "formatted"
    /\ html # None
    /\ html[1].kind = "format_error"
    /\ Len(result[1].director_ranks.director_rankings) = 2
    /\ Len(result[1].director_ideas) = 3

\* C15: the suggested director of every returned result is not one of the
\* supplied directors, so no two breakdowns were requested for the same name.
C15_SuggestionNotSupplied ==
    result # None =>
        /\ \A i \in 1..Len(directors) :
              directors[i] # result[1].additional_director
        /\ \A i, j \in 1..Len(calls) :
              calls[i].director = calls[j].director => i = j

\* C16 (as stated): a request that ended with a result or an error had every
\* task call it issued return or fail; a call that never returns blocks it.
C16_HungCallBlocksRequest ==
    (result # None \/ error # None) =>
        /\ find_call.status \in {"ok", "failed"}
        /\ \A i \in 1..Len(calls) : calls[i].status \in {"ok", "failed"}
        /\ judge_call.status \in {"idle", "ok", "failed"}

\* C16 (amended): while the suggest call, the judge call or a breakdown call
\* is outstanding the request has neither a result nor an error, except that
\* a failing breakdown call ends the request with its error and the breakdown
\* calls still outstanding are cancelled; and when every issued task call
\* eventually returns or fails, the request ends with a result or an error.
C16_NoTimeout ==
    /\ [](/\ (\/ find_call.status = "pending"
              \/ judge_call.status = "pending"
              \/ \E i \in 1..Len(calls) : calls[i].status = "pending")
             => (result = None /\ error = None)
          /\ (\E i \in 1..Len(calls) : calls[i].status = "cancelled") =>
                /\ error # None
                /\ result = None
                /\ \E j \in 1..Len(calls) :
                      calls[j].status = "failed" /\ calls[j].error = error)
    /\ (find_call.status = "pending") ~> (result # None \/ error # None)

C16_Witness ==
    /\ pc = "raised"
    /\ Len(calls) = 3
    /\ calls[1].status = "cancelled"
    /\ calls[2].status = "failed"
    /\ calls[3].status = "ok"

\* C17: when the rank sequence is as long as the breakdown list, the cards
\* are the breakdowns in ascending rank, ties in generation order, and the
\* first card is the breakdown the orchestrator selected as winner.
C17_FirstCardIsWinner ==
    (html # None /\ html[1].kind = "results"
       /\ Len(result[1].director_ranks.director_rankings)
            = Len(result[1].director_ideas)) =>
        LET cards == html[1].cards
            ideas == result[1].director_ideas
            ranks == result[1].director_ranks.director_rankings
            n == Len(ideas)
        IN  \E p \in [1..n -> 1..n] :
              /\ \A k \in 1..n :
                    /\ cards[k].rank = ranks[p[k]]
                    /\ cards[k].director = ideas[p[k]].director_cut.director
              /\ \A k, l \in 1..n :
                    k < l => \/ ranks[p[k]] < ranks[p[l]]
                             \/ ranks[p[k]] = ranks[p[l]] /\ p[k] < p[l]
              /\ p[1] = best_index[1] + 1

C17_Witness ==
    /\ html # None
    /\ html[1].kind = "results"
    /\ Len(html[1].cards) = 3
    /\ result[1].director_ranks.director_rankings = <<2, 1, 1>>
    /\ best_index = Some(1)
    /\ [k \in 1..3 |-> html[1].cards[k].director]
          = << <<"b">>, <<"z">>, <<"a">> >>

\* C18: a returned result has a winner index that is a position of the
\* breakdown list; an empty rank sequence, or one whose first minimum lies
\* past the last breakdown, ends the request with an error and no result.
C18_WinnerIndexValid ==
    /\ result # None =>
          /\ best_index # None
          /\ best_index[1] \in 0..(Len(result[1].director_ideas) - 1)
    /\ director_ranks # None =>
          LET ranks == director_ranks[1]
              n == Len(director_ideas)
              bad == \/ ranks = <<>>
                     \/ \A i \in 1..Len(ranks) :
                           i <= n => \E j \in (n + 1)..Len(ranks) :
                                        ranks[j] < ranks[i]
          IN  /\ bad => (pc = "raised" /\ error # None /\ result = None)
              /\ ~bad => result # None

C18_Witness ==
    /\ pc = "raised"
    /\ error = Some("IndexError")
    /\ director_ranks = Some(<<2, 2, 1>>)
    /\ Len(director_ideas) = 2

\* C19: a request never modifies the director list it was given, nor the
\* default list: in every request, also after earlier ones, the list is the
\* one parsed from the request's own argument and the breakdown calls are for
\* that list followed by the request's own suggestion.
C19_DirectorListNotModified ==
    /\ [](pc \notin {"idle", "exited"} =>
            /\ directors = ParseDirectors(directors_arg)
            /\ (\A k \in 1..Len(directors_arg.text) :
                   directors_arg.text[k] \in {" ", ","}) =>
                  directors = << <<"Q", "T">>, <<"A", "H">>, <<"R", "C">> >>
            /\ calls # <<>> =>
                  [i \in 1..Len(calls) |-> calls[i].director]
                      = ParseDirectors(directors_arg) \o additional_director)
    /\ [][(pc \notin {"idle", "exited"} /\ pc' \notin {"idle", "exited"})
            => directors' = directors]_vars

C19_Witness ==
    /\ requests = 2
    /\ pc = "formatted"
    /\ directors_arg = StrArg(<<",">>)
    /\ directors = DefaultDirectors
    /\ Len(calls) = 4
    /\ calls[4].director = <<"z">>

-----------------------------------------------------------------------------
(* Every issued task call eventually returns or fails, and the event loop
   resumes the coroutine once the gather is complete *)

Fairness ==
    /\ WF_vars((\E name \in Suggestions : FindDirectorReturns(name))
               \/ (\E e \in Errors : FindDirectorFails(e)))
    /\ WF_vars((\E i \in 1..Len(calls) : \E c \in CutsFor(calls[i].director) :
                   GenDirectorCutReturns(i, c))
               \/ (\E i \in 1..Len(calls) : \E e \in Errors :
                   GenDirectorCutFails(i, e)))
    /\ WF_vars(GatherJoins)
    /\ WF_vars(DirectorJudgeReturns \/ (\E e \in Errors : DirectorJudgeFails(e)))

\* the directors texts of the requests whose termination is checked; the
\* requests come from the form
LiveArgs == { StrArg(<<"a">>), StrArg(<<"a", ",", " ", "b">>) }

NextLive ==
    \/ \E blank \in BOOLEAN : \E arg \in LiveArgs : Submit(blank, arg)
    \/ CallRunBakeOff
    \/ \E name \in Suggestions : FindDirectorReturns(name)
    \/ \E e \in Errors : FindDirectorFails(e)
    \/ \E i \in 1..Len(calls) : \E c \in CutsFor(calls[i].director) :
          GenDirectorCutReturns(i, c)
    \/ \E i \in 1..Len(calls) : \E e \in Errors : GenDirectorCutFails(i, e)
    \/ GatherJoins
    \/ DirectorJudgeReturns
    \/ \E e \in Errors : DirectorJudgeFails(e)
    \/ FormatResults
    \/ RenderError

SpecLive == Init /\ [][NextLive]_vars /\ Fairness

====
